---- MODULE Spec2Model ----
(***************************************************************************)
(* A model of dm-text-fuzz (src/main.py): the per-character mutation loop  *)
(* of fuzz_text, the checks of validate_args, and the run of main with its *)
(* two files and its exit status.                                          *)
(*                                                                         *)
(* Frequencies and random draws are real numbers in the program.  Here a   *)
(* frequency is an integer n standing for n/Scale and a draw r in [0,1) is *)
(* the integer floor(r*Scale) in 0..Scale-1: every comparison the code     *)
(* makes is between a draw and a sum of frequencies, and its result only   *)
(* depends on that integer when the frequencies lie on the grid.  Sums are *)
(* exact; the rounding of binary floating point is not modelled.           *)
(***************************************************************************)
EXTENDS Integers, Sequences, FiniteSets, TLC

\* The grid of frequencies and draws: 1.0 is Scale.
Scale == 4
\* The longest text handed to fuzz_text directly.
MaxLen == 2
\* The longest content of the input file of a run of main.
MaxFileLen == 1

VARIABLES
    pc,            \* the position of the run
    args,          \* the namespace parse_args returned (fuzz_text's parameters)
    input_file,    \* what the input path names: [kind, content]
    output_file,   \* what the output path names: [kind, content]
    output_before, \* what the output path named when the run started
    infile_open,   \* the handle of the first with-statement is open
    outfile_open,  \* the handle of the second with-statement is open
    text,          \* the text read (fuzz_text's parameter text)
    i,             \* the position of fuzz_text's for loop in text
    fuzzed_text,   \* fuzz_text's accumulator, then main's fuzzed_text
    log,           \* per character handled by the loop: char, draws, branch, emitted
    exc,           \* the exception in flight
    steps,         \* the steps of main taken so far, in order
    exit_status    \* the exit status of the process, as <<status>> once it has exited

vars == <<pc, args, input_file, output_file, output_before, infile_open,
          outfile_open, text, i, fuzzed_text, log, exc, steps, exit_status>>

----------------------------------------------------------------------------
(* Characters.  string.ascii_letters + string.digits and string.punctuation *)
(* are each represented by two members; " " stands for every character in   *)
(* neither set.                                                             *)

alphanumerics == {"a", "7"}
punctuation == {".", ","}
Chars == {"a", " ", ".", ","}

RECURSIVE TextsOfLen(_)
TextsOfLen(n) ==
    IF n = 0 THEN {<<>>}
    ELSE {Append(t, c) : t \in TextsOfLen(n - 1), c \in Chars}

TextsUpTo(n) == UNION {TextsOfLen(k) : k \in 0..n}

\* random.random(): a draw in [0,1)
Draws == 0..(Scale - 1)

----------------------------------------------------------------------------
(* Values                                                                   *)

\* what a path names
NoFile == [kind |-> "absent", content |-> <<>>]
Directory == [kind |-> "dir", content |-> <<>>]
File(content) == [kind |-> "file", content |-> content]

\* Path.is_file(), Path.is_dir()
is_file(path) == path.kind = "file"
is_dir(path) == path.kind = "dir"

\* no namespace yet, and the namespaces parse_args can return: type=float takes
\* any number, in range or not
NoArgs == [parsed |-> FALSE]
FreqValues == (0 - 1)..(Scale + 1)
Namespaces ==
    [substitution_freq : FreqValues, insertion_freq : FreqValues,
     deletion_freq : FreqValues, preserve_punctuation : BOOLEAN]

NoException == [type |-> "none", msg |-> ""]
Raise(type, msg) == [type |-> type, msg |-> msg]

----------------------------------------------------------------------------
(* fuzz_text                                                                *)

\* line 57: the character is exempt from mutation
\* (variant MutPreservedNever: the exemption is never applied)
MutPreservedNever(char, preserve_punctuation) == FALSE
Preserved(char, preserve_punctuation) ==
    preserve_punctuation /\ char \in punctuation

\* lines 62-69: the branch a draw selects, by cumulative thresholds
\* (variant MutOutcomeInclusive: thresholds compared with <=; variant
\* MutOutcomeIndependent: each frequency compared on its own, not cumulated)
MutOutcomeInclusive(rand_val, sub_freq, ins_freq, del_freq) ==
    IF rand_val <= sub_freq THEN "substitute"
    ELSE IF rand_val <= sub_freq + ins_freq THEN "insert"
    ELSE IF rand_val <= sub_freq + ins_freq + del_freq THEN "delete"
    ELSE "keep"
MutOutcomeIndependent(rand_val, sub_freq, ins_freq, del_freq) ==
    IF rand_val < sub_freq THEN "substitute"
    ELSE IF rand_val < ins_freq THEN "insert"
    ELSE IF rand_val < del_freq THEN "delete"
    ELSE "keep"
Outcome(rand_val, sub_freq, ins_freq, del_freq) ==
    IF rand_val < sub_freq THEN "substitute"
    ELSE IF rand_val < sub_freq + ins_freq THEN "insert"
    ELSE IF rand_val < sub_freq + ins_freq + del_freq THEN "delete"
    ELSE "keep"

\* lines 58, 63, 65, 67, 69: what a branch appends to fuzzed_text;
\* choice is the value of random.choice where the branch makes one
\* (variant MutEmitInsertAfter: the inserted character follows the original;
\* variant MutEmitDeleteKeeps: the delete branch emits the character)
MutEmitInsertAfter(branch, char, choice) ==
    CASE branch = "preserve" -> <<char>>
      [] branch = "substitute" -> <<choice>>
      [] branch = "insert" -> <<char, choice>>
      [] branch = "delete" -> <<>>
      [] branch = "keep" -> <<char>>
MutEmitDeleteKeeps(branch, char, choice) ==
    CASE branch = "preserve" -> <<char>>
      [] branch = "substitute" -> <<choice>>
      [] branch = "insert" -> <<choice, char>>
      [] branch = "delete" -> <<char>>
      [] branch = "keep" -> <<char>>
Emit(branch, char, choice) ==
    CASE branch = "preserve" -> <<char>>
      [] branch = "substitute" -> <<choice>>
      [] branch = "insert" -> <<choice, char>>
      [] branch = "delete" -> <<>>
      [] branch = "keep" -> <<char>>

\* one iteration of the for loop, recorded in log
Iterate(char, draws, choices, branch) ==
    LET emitted == Emit(branch, char, IF choices = <<>> THEN char ELSE choices[1])
    IN /\ fuzzed_text' = fuzzed_text \o emitted
       /\ log' = Append(log, [char |-> char, draws |-> draws, choices |-> choices,
                              branch |-> branch, emitted |-> emitted])
       /\ i' = i + 1

\* lines 56-59: a preserved punctuation character, no draw
FuzzPreserve ==
    /\ pc = "fuzz_text"
    /\ i <= Len(text)
    /\ Preserved(text[i], args.preserve_punctuation)
    /\ Iterate(text[i], <<>>, <<>>, "preserve")
    /\ UNCHANGED <<pc, args, input_file, output_file, output_before, infile_open,
                   outfile_open, text, exc, steps, exit_status>>

\* lines 61-69: one draw, then the branch it selects
FuzzDraw ==
    /\ pc = "fuzz_text"
    /\ i <= Len(text)
    /\ ~Preserved(text[i], args.preserve_punctuation)
    /\ \E rand_val \in Draws :
         LET branch == Outcome(rand_val, args.substitution_freq,
                               args.insertion_freq, args.deletion_freq)
         IN IF branch \in {"substitute", "insert"}
            THEN \E choice \in alphanumerics :
                    Iterate(text[i], <<rand_val>>, <<choice>>, branch)
            ELSE Iterate(text[i], <<rand_val>>, <<>>, branch)
    /\ UNCHANGED <<pc, args, input_file, output_file, output_before, infile_open,
                   outfile_open, text, exc, steps, exit_status>>

\* line 70: the loop is over; the locals of fuzz_text are gone
FuzzReturn ==
    /\ pc = "fuzz_text"
    /\ i > Len(text)
    /\ pc' = "returned"
    /\ log' = <<>>
    /\ steps' = Append(steps, "transform")
    /\ UNCHANGED <<args, input_file, output_file, output_before, infile_open,
                   outfile_open, text, i, fuzzed_text, exc, exit_status>>

----------------------------------------------------------------------------
(* validate_args                                                            *)

\* lines 75-93: the first check that fails raises; NoException when all pass
\* (variant MutValidateNoSum: the check of the sum, lines 81-87, is missing)
MutValidateNoSum(a, input, output) ==
    IF ~(0 <= a.substitution_freq /\ a.substitution_freq <= Scale)
    THEN Raise("ValueError", "Substitution frequency must be between 0 and 1.")
    ELSE IF ~(0 <= a.insertion_freq /\ a.insertion_freq <= Scale)
    THEN Raise("ValueError", "Insertion frequency must be between 0 and 1.")
    ELSE IF ~(0 <= a.deletion_freq /\ a.deletion_freq <= Scale)
    THEN Raise("ValueError", "Deletion frequency must be between 0 and 1.")
    ELSE IF ~is_file(input)
    THEN Raise("FileNotFoundError", "Input file not found")
    ELSE IF is_dir(output)
    THEN Raise("IsADirectoryError", "Output file cannot be a directory")
    ELSE NoException
validate_args(a, input, output) ==
    IF ~(0 <= a.substitution_freq /\ a.substitution_freq <= Scale)
    THEN Raise("ValueError", "Substitution frequency must be between 0 and 1.")
    ELSE IF ~(0 <= a.insertion_freq /\ a.insertion_freq <= Scale)
    THEN Raise("ValueError", "Insertion frequency must be between 0 and 1.")
    ELSE IF ~(0 <= a.deletion_freq /\ a.deletion_freq <= Scale)
    THEN Raise("ValueError", "Deletion frequency must be between 0 and 1.")
    ELSE IF a.substitution_freq + a.insertion_freq + a.deletion_freq > Scale
    THEN Raise("ValueError", "Total modification probability cannot be greater than 1.")
    ELSE IF ~is_file(input)
    THEN Raise("FileNotFoundError", "Input file not found")
    ELSE IF is_dir(output)
    THEN Raise("IsADirectoryError", "Output file cannot be a directory")
    ELSE NoException

----------------------------------------------------------------------------
(* main                                                                     *)

\* lines 101, 119-130: an exception raised inside the try block goes to the
\* except clauses, and nothing else of the block runs
\* (variant MutOnRaiseContinue: the block goes on after a raise)
MutOnRaiseContinue(e, next) == next
OnRaise(e, next) == IF e = NoException THEN next ELSE "except"

\* lines 119-124: the classes the first except clause names (IOError is OSError,
\* UnicodeDecodeError is a ValueError)
Listed == {"FileNotFoundError", "ValueError", "IsADirectoryError", "OSError"}

\* lines 126, 130: sys.exit(1) in both except clauses
\* (variant MutExitCodeUnexpectedZero: the second clause exits with 0)
MutExitCodeUnexpectedZero(e) == IF e.type \in Listed THEN 1 ELSE 0
ExitCode(e) == 1

\* lines 105-106, 115-116: leaving a with-statement closes its file, on the
\* normal path and when the body raised
\* (variant MutWithExitLeaksOnError: the file stays open when the body raised)
MutWithExitLeaksOnError(open, e) == IF e = NoException THEN FALSE ELSE open
WithExit(open, e) == FALSE

\* line 99: parse_args returns a namespace, or ends the process itself: status 2
\* on a command line it rejects, status 0 after -h
ParseArgs ==
    /\ pc = "parse_args"
    /\ \/ /\ args' \in Namespaces
          /\ pc' = "validate_args"
          /\ UNCHANGED exit_status
       \/ /\ exit_status' = <<2>>
          /\ pc' = "exited"
          /\ UNCHANGED args
       \/ /\ exit_status' = <<0>>
          /\ pc' = "exited"
          /\ UNCHANGED args
    /\ UNCHANGED <<input_file, output_file, output_before, infile_open,
                   outfile_open, text, i, fuzzed_text, log, exc, steps>>

\* lines 102-103
ValidateArgs ==
    /\ pc = "validate_args"
    /\ LET e == validate_args(args, input_file, output_file)
       IN /\ exc' = e
          /\ pc' = OnRaise(e, "open_input")
          /\ steps' = IF e = NoException THEN Append(steps, "validate") ELSE steps
    /\ UNCHANGED <<args, input_file, output_file, output_before, infile_open,
                   outfile_open, text, i, fuzzed_text, log, exit_status>>

\* line 105: open(args.input_file, "r") opens the file or raises
OpenInput ==
    /\ pc = "open_input"
    /\ \/ /\ is_file(input_file)
          /\ infile_open' = TRUE
          /\ steps' = Append(steps, "open_input")
          /\ pc' = "read_input"
          /\ UNCHANGED exc
       \/ /\ exc' = Raise("OSError", "open input")
          /\ pc' = OnRaise(exc', "read_input")
          /\ UNCHANGED <<infile_open, steps>>
    /\ UNCHANGED <<args, input_file, output_file, output_before,
                   outfile_open, text, i, fuzzed_text, log, exit_status>>

\* line 106: infile.read() returns the whole content or raises (a read error, a
\* UnicodeDecodeError, a MemoryError)
ReadInput ==
    /\ pc = "read_input"
    /\ \/ /\ text' = input_file.content
          /\ steps' = Append(steps, "read_input")
          /\ UNCHANGED exc
       \/ /\ exc' \in {Raise("OSError", "read input"), Raise("ValueError", "decode input"),
                       Raise("MemoryError", "read input")}
          /\ UNCHANGED <<text, steps>>
    /\ pc' = "close_input"
    /\ UNCHANGED <<args, input_file, output_file, output_before, infile_open,
                   outfile_open, i, fuzzed_text, log, exit_status>>

\* lines 105-106: the end of the first with-statement
CloseInput ==
    /\ pc = "close_input"
    /\ infile_open' = WithExit(infile_open, exc)
    /\ steps' = IF infile_open' THEN steps ELSE Append(steps, "close_input")
    /\ pc' = OnRaise(exc, "call_fuzz_text")
    /\ UNCHANGED <<args, input_file, output_file, output_before,
                   outfile_open, text, i, fuzzed_text, log, exc, exit_status>>

\* lines 108-114, 55: the call of fuzz_text
CallFuzzText ==
    /\ pc = "call_fuzz_text"
    /\ pc' = "fuzz_text"
    /\ i' = 1
    /\ fuzzed_text' = <<>>
    /\ log' = <<>>
    /\ UNCHANGED <<args, input_file, output_file, output_before, infile_open,
                   outfile_open, text, exc, steps, exit_status>>

\* line 115: open(args.output_file, "w") creates the file, or empties the one
\* there, or raises and leaves the path as it was
OpenOutput ==
    /\ pc = "returned"
    /\ \/ /\ ~is_dir(output_file)
          /\ output_file' = File(<<>>)
          /\ outfile_open' = TRUE
          /\ steps' = Append(steps, "open_output")
          /\ pc' = "write_output"
          /\ UNCHANGED exc
       \/ /\ exc' = Raise("OSError", "open output")
          /\ pc' = OnRaise(exc', "write_output")
          /\ UNCHANGED <<output_file, outfile_open, steps>>
    /\ UNCHANGED <<args, input_file, output_before, infile_open,
                   text, i, fuzzed_text, log, exit_status>>

\* line 116 (and the flush of the with-statement's close): the whole text
\* reaches the file, or the write raises with only a proper part of it there
WriteOutput ==
    /\ pc = "write_output"
    /\ \/ /\ output_file' = File(fuzzed_text)
          /\ steps' = Append(steps, "write_output")
          /\ UNCHANGED exc
       \/ /\ \E n \in 0..(Len(fuzzed_text) - 1) :
                output_file' = File(SubSeq(fuzzed_text, 1, n))
          /\ exc' = Raise("OSError", "write output")
          /\ UNCHANGED steps
    /\ pc' = "close_output"
    /\ UNCHANGED <<args, input_file, output_before, infile_open,
                   outfile_open, text, i, fuzzed_text, log, exit_status>>

\* lines 115-116: the end of the second with-statement
CloseOutput ==
    /\ pc = "close_output"
    /\ outfile_open' = WithExit(outfile_open, exc)
    /\ steps' = IF outfile_open' THEN steps ELSE Append(steps, "close_output")
    /\ pc' = OnRaise(exc, "finish")
    /\ UNCHANGED <<args, input_file, output_file, output_before, infile_open,
                   text, i, fuzzed_text, log, exc, exit_status>>

\* line 117, and main returns: the interpreter exits with status 0
Finish ==
    /\ pc = "finish"
    /\ exit_status' = <<0>>
    /\ pc' = "exited"
    /\ UNCHANGED <<args, input_file, output_file, output_before, infile_open,
                   outfile_open, text, i, fuzzed_text, log, exc, steps>>

\* lines 119-126: a listed exception is logged, then sys.exit(1)
ExceptListed ==
    /\ pc = "except"
    /\ exc.type \in Listed
    /\ exit_status' = <<ExitCode(exc)>>
    /\ pc' = "exited"
    /\ UNCHANGED <<args, input_file, output_file, output_before, infile_open,
                   outfile_open, text, i, fuzzed_text, log, exc, steps>>

\* lines 128-130: any other Exception is logged with its traceback, then sys.exit(1)
ExceptUnexpected ==
    /\ pc = "except"
    /\ exc.type \notin Listed
    /\ exit_status' = <<ExitCode(exc)>>
    /\ pc' = "exited"
    /\ UNCHANGED <<args, input_file, output_file, output_before, infile_open,
                   outfile_open, text, i, fuzzed_text, log, exc, steps>>

----------------------------------------------------------------------------
(* Specifications                                                           *)

\* A run of main: the two paths name anything, the command line is anything.
Init ==
    /\ pc = "parse_args"
    /\ args = NoArgs
    /\ input_file \in {NoFile, Directory} \cup {File(t) : t \in TextsUpTo(MaxFileLen)}
    /\ output_file \in {NoFile, Directory, File(<<"a", ".">>)}
    /\ output_before = output_file
    /\ infile_open = FALSE
    /\ outfile_open = FALSE
    /\ text = <<>>
    /\ i = 1
    /\ fuzzed_text = <<>>
    /\ log = <<>>
    /\ exc = NoException
    /\ steps = <<>>
    /\ exit_status = <<>>

Next ==
    \/ ParseArgs
    \/ ValidateArgs
    \/ OpenInput
    \/ ReadInput
    \/ CloseInput
    \/ CallFuzzText
    \/ FuzzPreserve
    \/ FuzzDraw
    \/ FuzzReturn
    \/ OpenOutput
    \/ WriteOutput
    \/ CloseOutput
    \/ Finish
    \/ ExceptListed
    \/ ExceptUnexpected

Spec == Init /\ [][Next]_vars

\* The namespaces that pass the frequency checks of validate_args: main calls
\* fuzz_text with no other.
Configurations ==
    {a \in Namespaces : validate_args(a, File(<<>>), NoFile) = NoException}

\* fuzz_text called on its own: any text, any configuration.
InitFuzz ==
    /\ pc = "fuzz_text"
    /\ args \in Configurations
    /\ text \in TextsUpTo(MaxLen)
    /\ input_file = NoFile
    /\ output_file = NoFile
    /\ output_before = NoFile
    /\ infile_open = FALSE
    /\ outfile_open = FALSE
    /\ i = 1
    /\ fuzzed_text = <<>>
    /\ log = <<>>
    /\ exc = NoException
    /\ steps = <<>>
    /\ exit_status = <<>>

NextFuzz ==
    \/ FuzzPreserve
    \/ FuzzDraw
    \/ FuzzReturn

SpecFuzz == InitFuzz /\ [][NextFuzz]_vars

----------------------------------------------------------------------------
(* Properties of fuzz_text (checked under SpecFuzz)                         *)

Has(seq, x) == \E k \in DOMAIN seq : seq[k] = x
IsPrefix(s, t) == Len(s) <= Len(t) /\ SubSeq(t, 1, Len(s)) = s
IsPunctuation(c) == c \in punctuation
Count(seq, branch) == Cardinality({k \in DOMAIN seq : seq[k].branch = branch})

RECURSIVE Emitted(_)
Emitted(entries) ==
    IF entries = <<>> THEN <<>>
    ELSE Emitted(SubSeq(entries, 1, Len(entries) - 1)) \o entries[Len(entries)].emitted

InLoop == pc = "fuzz_text"
LoopDone == pc = "fuzz_text" /\ i > Len(text)
Returned == pc = "returned"
AllZero ==
    /\ args.substitution_freq = 0
    /\ args.insertion_freq = 0
    /\ args.deletion_freq = 0
SumIsOne ==
    args.substitution_freq + args.insertion_freq + args.deletion_freq = Scale

\* C1: with the three frequencies 0, whatever preserve_punctuation and the
\* draws are, the loop copies the text: after each iteration the accumulator is
\* the text handled so far, and the text returned equals the input text.
C1_ZeroFrequenciesIdentity ==
    AllZero =>
        /\ InLoop => fuzzed_text = SubSeq(text, 1, i - 1)
        /\ Returned => fuzzed_text = text

C1_Witness ==
    /\ Returned
    /\ AllZero
    /\ Len(text) = MaxLen
    /\ \E k \in DOMAIN text : text[k] \in punctuation
    /\ \E k \in DOMAIN text : text[k] \notin punctuation
    /\ fuzzed_text = text

\* C2: with preserve_punctuation on, every punctuation character is handled
\* without a draw and emitted alone and unchanged, and the punctuation
\* characters of the output are those of the input, in the same order.
C2_PunctuationPreserved ==
    args.preserve_punctuation =>
        /\ InLoop =>
             /\ \A k \in DOMAIN log :
                   log[k].char \in punctuation =>
                       /\ log[k].branch = "preserve"
                       /\ log[k].draws = <<>>
                       /\ log[k].choices = <<>>
                       /\ log[k].emitted = <<log[k].char>>
             /\ SelectSeq(fuzzed_text, IsPunctuation)
                  = SelectSeq(SubSeq(text, 1, i - 1), IsPunctuation)
        /\ Returned =>
             SelectSeq(fuzzed_text, IsPunctuation) = SelectSeq(text, IsPunctuation)

C2_Witness ==
    /\ LoopDone
    /\ args.preserve_punctuation
    /\ Len(text) = MaxLen
    /\ text[1] \notin punctuation
    /\ text[MaxLen] \in punctuation
    /\ log[1].branch = "insert"
    /\ log[MaxLen].branch = "preserve"
    /\ fuzzed_text # text

\* C3 as stated: when the frequencies sum to 1, every character of the input
\* is modified, that is handled by the substitute, insert or delete branch.
C3_Original ==
    (InLoop /\ SumIsOne) =>
        \A k \in DOMAIN log : log[k].branch \in {"substitute", "insert", "delete"}

\* C3 as amended: when the frequencies sum to 1, the pass-through branch is
\* never taken; every character is substituted, preceded by an insertion or
\* deleted, except the punctuation characters that preserve_punctuation
\* exempts, which are emitted unchanged.
C3_SumOneNoPassThrough ==
    (InLoop /\ SumIsOne) =>
        \A k \in DOMAIN log :
            /\ log[k].branch # "keep"
            /\ log[k].branch = "preserve" <=>
                   (args.preserve_punctuation /\ log[k].char \in punctuation)

C3_Witness ==
    /\ LoopDone
    /\ SumIsOne
    /\ args.substitution_freq > 0
    /\ args.insertion_freq > 0
    /\ args.deletion_freq > 0
    /\ Len(log) = MaxLen
    /\ log[1].draws = <<Scale - 1>>
    /\ log[1].branch = "delete"
    /\ log[MaxLen].branch = "preserve"

\* C8: every character that is not exempted is handled with exactly one draw
\* in [0,1) and exactly one of four outcomes, selected by that draw alone
\* against the cumulative thresholds in the fixed order substitute, insert,
\* delete, pass-through; and the output is what the outcomes emitted, in order.
C8_OneDrawCumulativeThresholds ==
    InLoop =>
        /\ Len(log) = i - 1
        /\ fuzzed_text = Emitted(log)
        /\ \A k \in DOMAIN log :
              LET e == log[k]
                  sub == args.substitution_freq
                  ins == args.insertion_freq
                  del == args.deletion_freq
              IN /\ e.char = text[k]
                 /\ (args.preserve_punctuation /\ e.char \in punctuation)
                       <=> e.branch = "preserve"
                 /\ e.branch # "preserve" =>
                      /\ Len(e.draws) = 1
                      /\ e.draws[1] \in 0..(Scale - 1)
                      /\ LET r == e.draws[1]
                         IN /\ r < sub =>
                                 /\ Len(e.emitted) = 1
                                 /\ e.emitted[1] \in alphanumerics
                            /\ (r >= sub /\ r < sub + ins) =>
                                 /\ Len(e.emitted) = 2
                                 /\ e.emitted[1] \in alphanumerics
                                 /\ e.emitted[2] = e.char
                            /\ (r >= sub + ins /\ r < sub + ins + del) =>
                                 e.emitted = <<>>
                            /\ r >= sub + ins + del =>
                                 e.emitted = <<e.char>>

C8_Witness ==
    /\ LoopDone
    /\ args.substitution_freq = 1
    /\ args.insertion_freq = 1
    /\ args.deletion_freq = 1
    /\ Len(log) = MaxLen
    /\ log[1].draws = <<1>>
    /\ log[1].emitted = <<"7", text[1]>>
    /\ log[MaxLen].draws = <<0>>
    /\ log[MaxLen].emitted = <<"a">>
    /\ text[MaxLen] = " "

\* C9: the length of the output is the length of the input handled plus the
\* number of insertions minus the number of deletions; so it lies between 0
\* and twice the input length, and the empty text gives the empty text.
C9_OutputLength ==
    /\ InLoop =>
          Len(fuzzed_text) = (i - 1) + Count(log, "insert") - Count(log, "delete")
    /\ LoopDone =>
          Len(fuzzed_text) = Len(text) + Count(log, "insert") - Count(log, "delete")
    /\ Returned =>
          /\ Len(fuzzed_text) >= 0
          /\ Len(fuzzed_text) <= 2 * Len(text)
          /\ text = <<>> => fuzzed_text = <<>>

C9_Witness ==
    /\ LoopDone
    /\ Len(text) = MaxLen
    /\ Count(log, "insert") = 1
    /\ Count(log, "delete") = MaxLen - 1
    /\ Len(fuzzed_text) = 2

----------------------------------------------------------------------------
(* Properties of validate_args and main (checked under Spec)                *)

Parsed == args # NoArgs
Exited == pc = "exited"
\* validate_args has been called and has returned or raised
Validated == Parsed /\ pc # "validate_args"
\* validate_args raised: the try block raised before its first step was done
ValidationFailed == Validated /\ exc # NoException /\ ~Has(steps, "validate")

AllSteps ==
    <<"validate", "open_input", "read_input", "close_input", "transform",
      "open_output", "write_output", "close_output">>
IsTransfer(step) == step \notin {"read_input", "write_output"}

\* the six constraints of the validator, in its order
Constraints ==
    <<0 <= args.substitution_freq /\ args.substitution_freq <= Scale,
      0 <= args.insertion_freq /\ args.insertion_freq <= Scale,
      0 <= args.deletion_freq /\ args.deletion_freq <= Scale,
      args.substitution_freq + args.insertion_freq + args.deletion_freq <= Scale,
      input_file.kind = "file",
      output_file.kind # "dir">>
\* the error that names each constraint
ErrorFor ==
    <<[type |-> "ValueError", msg |-> "Substitution frequency must be between 0 and 1."],
      [type |-> "ValueError", msg |-> "Insertion frequency must be between 0 and 1."],
      [type |-> "ValueError", msg |-> "Deletion frequency must be between 0 and 1."],
      [type |-> "ValueError", msg |-> "Total modification probability cannot be greater than 1."],
      [type |-> "FileNotFoundError", msg |-> "Input file not found"],
      [type |-> "IsADirectoryError", msg |-> "Output file cannot be a directory"]>>
Violated == {k \in DOMAIN Constraints : ~Constraints[k]}

\* C4: validate_args fails exactly when one of its six constraints is violated,
\* and the error it raises is the one of the first violated constraint in the
\* order substitution, insertion, deletion, sum, input path, output path: a
\* ValueError naming the frequency or the sum, a FileNotFoundError, or an
\* IsADirectoryError.
C4_ValidateFirstViolation ==
    Validated =>
        /\ ValidationFailed <=> Violated # {}
        /\ ValidationFailed =>
              \E k \in Violated :
                  /\ \A j \in Violated : k <= j
                  /\ exc = ErrorFor[k]
        /\ \A j, k \in DOMAIN ErrorFor : j # k => ErrorFor[j] # ErrorFor[k]

C4_Witness ==
    /\ pc = "except"
    /\ ValidationFailed
    /\ Violated = {4, 5, 6}
    /\ exc.msg = "Total modification probability cannot be greater than 1."

\* A run that did everything: all steps in order, nothing raised, the whole
\* fuzzed text in the output file.
Success ==
    /\ steps = AllSteps
    /\ exc = NoException
    /\ output_file = File(fuzzed_text)

\* C5 as stated: every run ends with status 0 on success and with status 1 on
\* any error, and with no other status.
C5_Original ==
    Exited =>
        /\ exit_status \in {<<0>>, <<1>>}
        /\ exit_status = <<0>> <=> Success
        /\ exit_status = <<1>> <=> exc # NoException

\* C5 as amended: every run in which parse_args returns a namespace ends with
\* status 0 on success and with status 1 on any error raised in the try block,
\* and with no other status; a run that parse_args ends itself (status 2 on a
\* rejected command line, status 0 after -h) has validated and opened nothing.
C5_ExitStatus ==
    Exited =>
        /\ Parsed =>
              /\ exit_status \in {<<0>>, <<1>>}
              /\ exit_status = <<0>> <=> Success
              /\ exit_status = <<1>> <=> exc # NoException
        /\ ~Parsed =>
              /\ exit_status \in {<<0>>, <<2>>}
              /\ steps = <<>>
              /\ exc = NoException
              /\ output_file = output_before

C5_Witness ==
    /\ Exited
    /\ exit_status = <<1>>
    /\ exc.type = "MemoryError"
    /\ output_file = output_before

\* C6: in a run in which validate_args fails, neither file is ever opened and
\* the output path holds what it held before the run.
C6_ValidationBeforeIO ==
    ValidationFailed =>
        /\ ~infile_open
        /\ ~outfile_open
        /\ ~Has(steps, "open_input")
        /\ ~Has(steps, "open_output")
        /\ steps = <<>>
        /\ output_file = output_before
        /\ pc \in {"except", "exited"}

C6_Witness ==
    /\ Exited
    /\ ValidationFailed
    /\ exit_status = <<1>>
    /\ exc.type = "ValueError"
    /\ input_file.kind = "file"
    /\ output_before = File(<<"a", ".">>)

\* C7: a run that ends with a non-zero status leaves the output path holding
\* what it held before the run.
C7_NoPartialOutput ==
    (Exited /\ exit_status # <<0>>) => output_file = output_before

\* C10: the steps happen in the order validate, open input, read, close input,
\* transform, open output, write, close output (a read or a write that raises
\* is the only step that can be missing); the input file is open only while it
\* is read and is closed before the transformation, also when the read raised;
\* the output file is opened only after the transformation; the two are never
\* open together, and none is open when the run has exited.
C10_StepOrder ==
    /\ IsPrefix(SelectSeq(steps, IsTransfer), SelectSeq(AllSteps, IsTransfer))
    /\ exc = NoException => IsPrefix(steps, AllSteps)
    /\ ~(infile_open /\ outfile_open)
    /\ infile_open <=>
          (Has(steps, "open_input") /\ ~Has(steps, "close_input"))
    /\ outfile_open <=>
          (Has(steps, "open_output") /\ ~Has(steps, "close_output"))
    /\ (infile_open \/ Has(steps, "open_input")) => Has(steps, "validate")
    /\ pc \in {"call_fuzz_text", "fuzz_text", "returned"} =>
          (~infile_open /\ Has(steps, "close_input"))
    /\ outfile_open => (Has(steps, "transform") /\ pc \in {"write_output", "close_output"})
    /\ Exited => (~infile_open /\ ~outfile_open)

C10_Witness ==
    /\ Exited
    /\ exc = Raise("ValueError", "decode input")
    /\ steps = <<"validate", "open_input", "close_input">>
    /\ ~infile_open

====
